---- MODULE Spec2Model ----
(***************************************************************************)
(* A model of musixporter's TidalMapper (converters/tidal_mapper.py): the  *)
(* batch driver convert(), the per-track pipeline _find_track (ISRC lookup *)
(* then fuzzy title search), the album lookup _find_album and the miss     *)
(* report.  The Tidal service is the environment: every HTTP request gets  *)
(* a nondeterministically chosen response.                                 *)
(*                                                                         *)
(* Text is a sequence of characters, each a string ("e_acute" and "rsquo"  *)
(* stand for U+00E9 and U+2019).  Scores are in hundredths (0.8 is 80):    *)
(* the code's score is ratio + dur_score with dur_score in {1, 0, -0.2},   *)
(* and a candidate carries the ratio of its cleaned title to the source    *)
(* track's cleaned title (difflib.SequenceMatcher.ratio) in hundredths.    *)
(***************************************************************************)
EXTENDS Integers, Sequences, FiniteSets, TLC

\* ------------------------------------------------------------------ bounds
\* source entities (favourite tracks, albums, playlists and the tracks of
\* the playlists) in one run
MaxItems == 3
\* items in one search response
MaxResults == 1
\* characters of a text given to _clean_str
MaxLen == 3
\* segments of a cover identifier
MaxSegs == 2
\* nested calls the interpreter allows before it raises RecursionError
MaxDepth == 4
\* the start offset up to which the fallback loop is followed
MaxOffset == 20100

\* --------------------------------------------------------- program constants
NumApiKeys == 1
ACCEPT_THRESHOLD == 80
QUICK_ACCEPT == 90
DUR_BONUS == 100
DUR_PENALTY == 20
DUR_CLOSE == 3
DUR_NEAR == 10
PREVIEW_LIMIT == 20

\* ------------------------------------------------------------------- text
Space == " "
Openers == {"(", "["}
Closers == {")", "]"}
Alnum == {"a", "b", "c", "e", "x", "y", "A", "B"}

\* unicodedata.normalize("NFKD", s) followed by dropping combining marks,
\* on the characters of the model's alphabet
Decompose(ch) == IF ch = "e_acute" THEN "e" ELSE ch

Lower(ch) ==
    CASE ch = "A" -> "a"
      [] ch = "B" -> "b"
      [] OTHER -> ch

\* the index of the first closer after position j of s, 0 when there is none
FirstCloser(s, j) ==
    LET ks == {k \in (j + 1)..Len(s) : s[k] \in Closers}
    IN  IF ks = {} THEN 0 ELSE CHOOSE k \in ks : \A m \in ks : k <= m

\* the first position at or after i of s that holds no whitespace
SkipSpace(s, i) ==
    LET js == {j \in i..Len(s) : s[j] # Space}
    IN  IF js = {} THEN Len(s) + 1 ELSE CHOOSE j \in js : \A m \in js : j <= m

\* where a match of \s*[\(\[].*?[\)\]] that starts at i ends, 0 for no match
BracketMatchEnd(s, i) ==
    LET j == SkipSpace(s, i)
    IN  IF j <= Len(s) /\ s[j] \in Openers THEN FirstCloser(s, j) ELSE 0

\* re.sub(r"\s*[\(\[].*?[\)\]]", "", s) from position i on
RECURSIVE strip_brackets_from(_, _)
strip_brackets_from(s, i) ==
    IF i > Len(s) THEN <<>>
    ELSE IF BracketMatchEnd(s, i) # 0
         THEN strip_brackets_from(s, BracketMatchEnd(s, i) + 1)
         ELSE <<s[i]>> \o strip_brackets_from(s, i + 1)

strip_brackets(s) == strip_brackets_from(s, 1)

\* str.strip() where the only whitespace is the space
RECURSIVE strip(_)
strip(s) ==
    IF s = <<>> THEN s
    ELSE IF Head(s) = Space THEN strip(Tail(s))
    ELSE IF s[Len(s)] = Space THEN strip(SubSeq(s, 1, Len(s) - 1))
    ELSE s

\* a substitution that removes nothing
KeepAll(s) == s

\* re.sub(r"[^a-zA-Z0-9 ]", "", s) of the decomposed text
KeepAlnum(s) == SelectSeq(s, LAMBDA ch : ch \in Alnum \cup {Space})

clean_str(s) ==
    IF s = <<>> THEN <<>>
    ELSE LET d == [k \in 1..Len(strip_brackets(s)) |-> Decompose(strip_brackets(s)[k])]
             f == KeepAlnum(d)
         IN  strip([k \in 1..Len(f) |-> Lower(f[k])])

\* str.replace(U+2019, "'")
ReplaceApostrophe(s) == [k \in 1..Len(s) |-> IF s[k] = "rsquo" THEN "'" ELSE s[k]]

\* ------------------------------------------------------------- source data
\* "date_add" absent: dict.get returns None
NoDate == -1
Unknown == <<"U", "n", "k", "n", "o", "w", "n">>

\* A source record (track or album).  has_artist: the "artist" key holds a
\* dict; has_artists: the "artists" key holds a list, whose entries are
\* dicts (is_dict) or plain strings.
Src(title, isrc, duration, has_artist, artist_name, has_artists, artists, album, date_add) ==
    [title |-> title, isrc |-> isrc, duration |-> duration,
     has_artist |-> has_artist, artist_name |-> artist_name,
     has_artists |-> has_artists, artists |-> artists,
     album |-> album, date_add |-> date_add]

NoArtists == <<>>

\* "ab" by x, with a lower-case ISRC
TrackAb == Src(<<"a", "b">>, "gb1", 200, TRUE, <<"x">>, FALSE, NoArtists, <<>>, 111)
\* "a (b)" from album "c", its artists a list of plain strings, no ISRC
TrackParen ==
    Src(<<"a", Space, "(", "b", ")">>, "", 0, FALSE, <<>>, TRUE,
        <<[is_dict |-> FALSE, name |-> <<"x">>]>>, <<"c">>, 222)
\* no title, only an ISRC
TrackNoTitle == Src(<<>>, "US2", 200, FALSE, <<>>, FALSE, NoArtists, <<>>, 111)
\* "A!" with no artist at all
TrackBang == Src(<<"A", "!">>, "", 200, FALSE, <<>>, FALSE, NoArtists, <<>>, 111)

SrcTracks == {TrackAb, TrackParen, TrackNoTitle, TrackBang}
\* the tracks a playlist is made of
SrcPlaylistTracks == {TrackAb, TrackParen}

AlbumAb == Src(<<"a", "b">>, "", 0, TRUE, <<"x">>, FALSE, NoArtists, <<>>, 111)
AlbumStrArtists ==
    Src(<<"c">>, "", 0, FALSE, <<>>, TRUE,
        <<[is_dict |-> FALSE, name |-> <<"y">>]>>, <<>>, 222)

SrcAlbums == {AlbumAb, AlbumStrArtists}

\* A playlist record: its title and what its "tracks" key holds ("missing":
\* no such key, "none": None, "list": a list, whose length is drawn when
\* the loop takes the playlist).
SrcPlaylists ==
    {[title |-> <<>>, kind |-> "missing"],
     [title |-> <<"p">>, kind |-> "none"],
     [title |-> <<"p">>, kind |-> "list"]}

\* ------------------------------------------------------ target candidates
\* An item of a Tidal response.  id = 0: the item has no "id" key;
\* complete: it has the "title" and "duration" keys; sim: the ratio of its
\* cleaned title to the source's cleaned title, in hundredths.
Item(id, complete, sim, duration, isrc, has_artist, artist_name, has_artists, artists) ==
    [id |-> id, complete |-> complete, sim |-> sim, duration |-> duration,
     isrc |-> isrc, has_artist |-> has_artist, artist_name |-> artist_name,
     has_artists |-> has_artists, artists |-> artists]

\* the same recording as TrackAb
ItemExact == Item(1, TRUE, 100, 200, "GB1", TRUE, <<"x">>, FALSE, NoArtists)
\* title ratio exactly 0.80, duration unknown
ItemAt80 == Item(2, TRUE, 80, 0, "", FALSE, <<>>, TRUE, <<[is_dict |-> TRUE, name |-> <<"y">>]>>)
\* title ratio exactly 0.79, duration unknown
ItemAt79 == Item(3, TRUE, 79, 0, "", TRUE, <<"x">>, FALSE, NoArtists)
\* no "id" key, and 100 seconds longer than the source tracks
ItemNoId == Item(0, TRUE, 100, 300, "GB1", TRUE, <<"x">>, FALSE, NoArtists)
\* another recording: unrelated title, same length, another ISRC
ItemOther == Item(5, TRUE, 0, 201, "FR9", TRUE, <<"y">>, FALSE, NoArtists)

Items == {ItemExact, ItemAt80, ItemAt79, ItemNoId, ItemOther}

AlbumItemOk == Item(10, TRUE, 0, 0, "", TRUE, <<"x">>, FALSE, NoArtists)
AlbumItemNoTitle == Item(11, FALSE, 0, 0, "", TRUE, <<"x">>, FALSE, NoArtists)

AlbumItems == {AlbumItemOk, AlbumItemNoTitle}

\* str.upper() on the ISRCs of the model
Upper(code) == IF code = "gb1" THEN "GB1" ELSE code

\* ----------------------------------------------------------- the service
\* What one HTTP exchange can come to: "error" (the request raises: no
\* connection, timeout, or r.json() fails on the body), "status" (a
\* response whose status is not 200, with a JSON object body), "shape"
\* (valid JSON of another shape, such as {"tracks": null}), "ok" (200 and
\* the expected JSON).  The items of one response are distinct.  A search
\* never looks at the status, so its answers are told apart by body only.
RECURSIVE SeqsUpTo(_, _)
SeqsUpTo(S, n) ==
    IF n = 0 THEN {<<>>}
    ELSE LET shorter == SeqsUpTo(S, n - 1)
             longest == {r \in shorter : Len(r) = n - 1}
         IN  shorter \cup
             UNION {{Append(q, x) : x \in S \ {q[k] : k \in 1..Len(q)}} : q \in longest}

SearchResponses(S, limit) ==
    {[kind |-> k, items |-> <<>>] : k \in {"error", "shape"}}
        \cup {[kind |-> "ok", items |-> q] : q \in SeqsUpTo(S, limit)}

\* the lookup by ISRC answers with the recording of that code, with a
\* malformed item or with another recording
IsrcItems == {ItemExact, ItemNoId, ItemOther}

IsrcResponses ==
    {[kind |-> k, items |-> <<>>] : k \in {"error", "status"}}
        \cup {[kind |-> "ok", items |-> <<c>>] : c \in IsrcItems}

\* the items a track search answers with
SearchItems == {ItemExact, ItemAt80, ItemAt79, ItemNoId}

TrackSearchResponses == SearchResponses(SearchItems, MaxResults)
\* the album search asks for limit=1
AlbumSearchResponses == SearchResponses(AlbumItems, 1)

AuthResponses == {"error", "rejected", "token"}

\* ------------------------------------------------------- TidalMapper, pure
\* _get_safe_artist: the name it returns, or that it raises (AttributeError
\* from .get on an entry of "artists" that is no dict)
get_safe_artist(obj) ==
    IF obj.has_artist
    THEN [raised |-> FALSE, name |-> obj.artist_name]
    ELSE IF obj.has_artists /\ Len(obj.artists) > 0
         THEN IF obj.artists[1].is_dict
              THEN [raised |-> FALSE, name |-> obj.artists[1].name]
              ELSE [raised |-> TRUE, name |-> <<>>]
         ELSE [raised |-> FALSE, name |-> Unknown]

\* _map_tidal_to_internal(tidal_item, original_source): with_source is FALSE
\* for the call that leaves original_source at its default {}.  It raises
\* when the artist extraction does or a subscripted key is absent.
map_tidal_to_internal(tidal_item, with_source, original_source) ==
    IF get_safe_artist(tidal_item).raised \/ tidal_item.id = 0 \/ ~tidal_item.complete
    THEN [raised |-> TRUE, value |-> <<>>]
    ELSE [raised |-> FALSE,
          value |-> <<[id |-> tidal_item.id,
                       duration |-> tidal_item.duration,
                       date_add |-> IF with_source THEN original_source.date_add ELSE NoDate,
                       artist |-> get_safe_artist(tidal_item).name]>>]

\* _search_tidal without its try/except: a failed request raises
search_tidal_unguarded(resp) ==
    CASE resp.kind = "error" -> [raised |-> TRUE, items |-> <<>>]
      [] resp.kind = "shape" -> [raised |-> TRUE, items |-> <<>>]
      [] OTHER -> [raised |-> FALSE, items |-> resp.items]

\* _search_tidal: the parsed JSON, or {} when the request raised.  "data"
\* is what the caller's data.get(...).get("items", []) makes of it: the
\* items, or an AttributeError on JSON of another shape.
search_tidal(resp) ==
    CASE resp.kind = "error" -> [raised |-> FALSE, items |-> <<>>]
      [] resp.kind = "shape" -> [raised |-> TRUE, items |-> <<>>]
      [] OTHER -> [raised |-> FALSE, items |-> resp.items]

\* _find_track_by_isrc: the mapped item of a 200 response, None otherwise
\* and on any exception
find_track_by_isrc(resp) ==
    IF resp.kind = "ok" /\ ~map_tidal_to_internal(resp.items[1], FALSE, resp.items[1]).raised
    THEN map_tidal_to_internal(resp.items[1], FALSE, resp.items[1]).value
    ELSE <<>>

\* the names _approach_artist_title collects from the source track
artist_names(t) ==
    IF t.has_artists THEN [k \in 1..Len(t.artists) |-> t.artists[k].name]
    ELSE IF t.has_artist THEN <<t.artist_name>>
    ELSE <<>>

\* the queries of "for artist in reversed(artists)", from artist k down
RECURSIVE artist_queries(_, _, _, _)
artist_queries(clean_title, names, k, album_name) ==
    IF k = 0 THEN <<>>
    ELSE LET a_clean == clean_str(names[k])
             these == IF a_clean = <<>> THEN <<>>
                      ELSE <<clean_title \o <<Space>> \o a_clean>> \o
                           (IF album_name # <<>>
                            THEN <<clean_title \o <<Space>> \o a_clean \o <<Space>> \o album_name>>
                            ELSE <<>>)
         IN  these \o artist_queries(clean_title, names, k - 1, album_name)

InSeq(x, q) == \E k \in 1..Len(q) : q[k] = x

\* the query list of _approach_artist_title for a track with a title
build_queries(t) ==
    LET clean_title == clean_str(t.title)
        album_name == clean_str(t.album)
        raw_ap == strip(strip_brackets(ReplaceApostrophe(t.title)))
        q1 == <<t.title>> \o (IF raw_ap # <<>> /\ raw_ap # t.title THEN <<raw_ap>> ELSE <<>>)
        q2 == q1 \o (IF album_name # <<>> THEN <<clean_title \o <<Space>> \o album_name>> ELSE <<>>)
        q3 == q2 \o artist_queries(clean_title, artist_names(t), Len(artist_names(t)), album_name)
    IN  IF InSeq(clean_title, q3) THEN q3 ELSE Append(q3, clean_title)

Abs(n) == IF n < 0 THEN -n ELSE n

\* dur_score, in hundredths
dur_score(target_dur, dur) ==
    IF target_dur > 0 /\ dur > 0
    THEN IF Abs(dur - target_dur) <= DUR_CLOSE THEN DUR_BONUS
         ELSE IF Abs(dur - target_dur) <= DUR_NEAR THEN 0
         ELSE -DUR_PENALTY
    ELSE 0

combined(item, target_dur) == item.sim + dur_score(target_dur, item.duration)

\* the inner loop with ">=": on equal scores the later candidate wins
RECURSIVE score_items_keep_last(_, _, _, _)
score_items_keep_last(results, k, best, target_dur) ==
    IF k > Len(results) THEN best
    ELSE score_items_keep_last(results, k + 1,
                     IF combined(results[k], target_dur) >= best.score
                     THEN [score |-> combined(results[k], target_dur), item |-> <<results[k]>>]
                     ELSE best,
                     target_dur)

\* the inner loop "for item in results" from item k on: best is
\* [score, item], item a sequence of at most one candidate
RECURSIVE score_items(_, _, _, _)
score_items(results, k, best, target_dur) ==
    IF k > Len(results) THEN best
    ELSE score_items(results, k + 1,
                     IF combined(results[k], target_dur) > best.score
                     THEN [score |-> combined(results[k], target_dur), item |-> <<results[k]>>]
                     ELSE best,
                     target_dur)

\* The candidates seen so far, summarised: top is the first one among them
\* whose composite score no other exceeds (none before the first
\* candidate), brought up to date with the items of one more response.
top_after(top, items, target_dur) ==
    IF items = <<>> THEN top
    ELSE LET k == CHOOSE n \in 1..Len(items) :
                    /\ \A j \in 1..Len(items) :
                          combined(items[j], target_dur) <= combined(items[n], target_dur)
                    /\ \A j \in 1..(n - 1) :
                          combined(items[j], target_dur) < combined(items[n], target_dur)
         IN  IF top.item = <<>> \/ combined(items[k], target_dur) > top.score
             THEN [score |-> combined(items[k], target_dur), item |-> <<items[k]>>]
             ELSE top

\* a query loop that never stops early
quick_accept_never(best) == FALSE

\* the "quick accept" test that ends the query loop
quick_accept(best) == best.score >= QUICK_ACCEPT

\* the acceptance test with a strict comparison
accepts_strict(best) == best.item # <<>> /\ best.score > ACCEPT_THRESHOLD

\* the acceptance test after the query loop
accepts(best) == best.item # <<>> /\ best.score >= ACCEPT_THRESHOLD

\* ------------------------------------------------------------------ state
VARIABLES
    console,        \* self.console is set (rich is installed)
    pc,             \* where convert() is: start, tracks, albums, playlists,
                    \* report, done (returned), raised (an exception left it)
    exc,            \* the exception that left convert(), "" for none
    budget,         \* source entities the input may still hold
    converted,      \* the dict convert() builds
    missed,         \* the list of miss records
    missed_file,    \* missed_tidal.json
    i,              \* entities the current outer loop has finished
    pl,             \* the playlist being mapped, <<>> between playlists
    ti,             \* tracks of that playlist the inner loop has finished
    new_pl_tracks,  \* the matches of the playlist being mapped
    ft,             \* the _find_track call in progress
    sent,           \* the HTTP requests the latest step sent, by kind, and
                    \* what came of the search or lookup among them
    seen,           \* some search or lookup so far has returned a candidate
    preview,        \* the lines of the miss report on the rich console
    text,           \* a text under normalisation (used by SpecText only)
    fmt,            \* a value in the output formatter (SpecFormat only)
    dz,             \* the Deezer gateway client (SpecDeezer only)
    run,            \* a run of main (SpecMain only)
    last            \* the latest return of _find_track: what it returned and how
                    \* (of _find_album: cand, the first result of its search)

vars == <<console, pc, exc, budget, converted,
          missed, missed_file, i, pl, ti, new_pl_tracks, ft, sent, seen,
          preview, text, fmt, dz, run, last>>

\* the variables of convert() and of its report
convert_vars == <<console, pc, exc, budget, converted, missed, missed_file, i, pl,
                  ti, new_pl_tracks, ft, sent, seen, preview, last>>

PlaylistWord == <<"p", "l", "a", "y", "l", "i", "s", "t">>

NoRequests == [auth |-> 0, isrc |-> 0, tracks |-> 0, albums |-> 0, kind |-> ""]
NoBest == [score |-> 0, item |-> <<>>]
NoFmt == [stage |-> "off"]
NoDz == [stage |-> "off"]
NoRun == [stage |-> "off"]
NoText == [stage |-> "off", s |-> <<>>, p |-> <<>>, out |-> <<>>, twice |-> <<>>,
           suffixed |-> <<>>]
\* again: the previous _find_track call was for the same track and sent
\* its first query
Idle == [active |-> FALSE, track |-> <<>>, silent |-> FALSE, isrc_ret |-> <<>>,
         again |-> FALSE,
         queries |-> <<>>, qi |-> 0, best |-> NoBest, searches |-> 0, lookups |-> 0,
         top |-> NoBest]
NoReturn == [track |-> <<>>, ret |-> <<>>, via |-> "", cand |-> <<>>,
             score |-> 0, queries |-> 0, searches |-> 0, lookups |-> 0,
             top |-> NoBest, source |-> <<>>]

Init ==
    /\ console \in BOOLEAN
    /\ pc = "start"
    /\ exc = ""
    /\ budget = MaxItems
    /\ converted = [tracks |-> <<>>, albums |-> <<>>, user_playlists |-> <<>>,
                    favorites_tracks |-> <<>>]
    /\ missed = <<>>
    /\ missed_file = [written |-> FALSE, content |-> <<>>]
    /\ i = 0
    /\ pl = <<>>
    /\ ti = 0
    /\ new_pl_tracks = <<>>
    /\ ft = Idle
    /\ sent = NoRequests
    /\ seen = FALSE
    /\ preview = <<>>
    /\ text = NoText
    /\ fmt = NoFmt
    /\ dz = NoDz
    /\ run = NoRun
    /\ last = NoReturn

\* ----------------------------------------------------------- _authenticate
\* the first key whose response carries a token, 0 when none does
FirstToken(outs) ==
    LET ks == {k \in 1..NumApiKeys : outs[k] = "token"}
    IN  IF ks = {} THEN 0 ELSE CHOOSE k \in ks : \A m \in ks : k <= m

\* convert() up to the first loop: _authenticate tries each API key in turn
\* and raises when none yields a token
Authenticate ==
    /\ UNCHANGED <<preview, text, fmt, dz, run>>
    /\ pc = "start"
    /\ \E outs \in [1..NumApiKeys -> AuthResponses] :
        IF FirstToken(outs) # 0
        THEN /\ pc' = "tracks"
             /\ exc' = exc
             /\ sent' = [NoRequests EXCEPT !.auth = FirstToken(outs)]
        ELSE /\ pc' = "raised"
             /\ exc' = "auth"
             /\ sent' = [NoRequests EXCEPT !.auth = NumApiKeys]
    /\ last' = NoReturn
    /\ UNCHANGED <<console, budget, converted, missed, missed_file, i, pl, ti,
                   new_pl_tracks, ft, seen>>

\* ------------------------------------------------- the loops' use of a result
\* the miss record of a favourite track (rich mode only)
\* a miss record that counts the favourites from zero
TrackMiss_ZeroBased(t) ==
    [context |-> "tracks", index |-> i, title |-> t.title,
     artist |-> get_safe_artist(t).name, original |-> t]

\* the miss record of a favourite track
TrackMiss(t) ==
    [context |-> "tracks", index |-> i + 1, title |-> t.title,
     artist |-> get_safe_artist(t).name, original |-> t]

\* sub_desc of the rich playlist loop
sub_desc(p) == IF p.title # <<>> THEN p.title ELSE PlaylistWord

\* the miss record of a playlist track
PlaylistMiss(t) ==
    [context |-> "playlist", playlist_index |-> i + 1,
     playlist_title |-> IF console THEN sub_desc(pl[1]) ELSE pl[1].title,
     track_index |-> ti + 1,
     title |-> t.title, artist |-> get_safe_artist(t).name, original |-> t]

\* the rest of a loop body once _find_track(t) has returned ret (a sequence
\* of at most one match): the favourites loop, then the playlist loop
Use(t, ret) ==
    IF pc = "tracks"
    THEN /\ UNCHANGED <<new_pl_tracks, ti>>
         /\ IF ret # <<>>
            THEN /\ converted' = [converted EXCEPT !.tracks = Append(@, ret[1]),
                                                   !.favorites_tracks = Append(@, ret[1])]
                 /\ i' = i + 1
                 /\ UNCHANGED <<missed, pc, exc>>
            ELSE IF ~console
            THEN /\ i' = i + 1
                 /\ UNCHANGED <<converted, missed, pc, exc>>
            ELSE IF get_safe_artist(t).raised
            THEN /\ pc' = "raised"
                 /\ exc' = "AttributeError"
                 /\ UNCHANGED <<converted, missed, i>>
            ELSE /\ missed' = Append(missed, TrackMiss(t))
                 /\ i' = i + 1
                 /\ UNCHANGED <<converted, pc, exc>>
    ELSE /\ UNCHANGED <<converted, i>>
         /\ IF ret # <<>>
            THEN /\ new_pl_tracks' = Append(new_pl_tracks, ret[1])
                 /\ ti' = ti + 1
                 /\ UNCHANGED <<missed, pc, exc>>
            ELSE IF get_safe_artist(t).raised
            THEN /\ pc' = "raised"
                 /\ exc' = "AttributeError"
                 /\ UNCHANGED <<missed, new_pl_tracks, ti>>
            ELSE /\ missed' = Append(missed, PlaylistMiss(t))
                 /\ ti' = ti + 1
                 /\ UNCHANGED <<new_pl_tracks, pc, exc>>

\* _find_track returns ret for t, reached via "isrc", "fuzzy", "none" (no
\* acceptable candidate) or "error" (its except clause)
Return(t, ret, via, cand, score, nq, ns, nl, top) ==
    /\ ft' = Idle
    /\ last' = [track |-> <<t>>, ret |-> ret, via |-> via,
                cand |-> cand, score |-> score, queries |-> nq, searches |-> ns,
                lookups |-> nl, top |-> top, source |-> <<>>]
    /\ Use(t, ret)

\* ------------------------------------------------------------- _find_track
\* _find_track that runs the fuzzy approach whatever the ISRC approach returned
AfterIsrc_NoShortCircuit(t, silent, r, cand, nl) ==
    IF t.title = <<>>
    THEN Return(t, r, IF r # <<>> THEN "isrc" ELSE "none", cand, 0, 0, 0, nl, NoBest)
    ELSE /\ ft' = [active |-> TRUE, track |-> <<t>>, silent |-> silent, isrc_ret |-> r,
                   again |-> (last.track = <<t>> /\ last.searches > 0),
                   queries |-> build_queries(t), qi |-> 1, best |-> NoBest,
                   searches |-> 0, lookups |-> nl, top |-> NoBest]
         /\ last' = NoReturn
         /\ UNCHANGED <<converted, missed, i, ti, new_pl_tracks, pc, exc>>

\* _find_track(t) from the return of _approach_isrc on: r is what the ISRC
\* approach returned, cand the item it mapped, nl the lookups it sent.
\* A match returns at once; otherwise _approach_artist_title starts, which
\* returns None for a track without title and else prepares its queries.
AfterIsrc(t, silent, r, cand, nl) ==
    IF r # <<>>
    THEN Return(t, r, "isrc", cand, 0, 0, 0, nl, NoBest)
    ELSE IF t.title = <<>>
    THEN Return(t, <<>>, "none", <<>>, 0, 0, 0, nl, NoBest)
    ELSE /\ ft' = [active |-> TRUE, track |-> <<t>>, silent |-> silent, isrc_ret |-> r,
                   again |-> (last.track = <<t>> /\ last.searches > 0),
                   queries |-> build_queries(t), qi |-> 1, best |-> NoBest,
                   searches |-> 0, lookups |-> nl, top |-> NoBest]
         /\ last' = NoReturn
         /\ UNCHANGED <<converted, missed, i, ti, new_pl_tracks, pc, exc>>

\* _find_track(t) up to its first search request: _approach_isrc looks the
\* ISRC up when the track has one
StartFind(t, silent) ==
    IF t.isrc # ""
    THEN \E resp \in IsrcResponses :
            /\ sent' = [NoRequests EXCEPT !.isrc = 1, !.kind = resp.kind]
            /\ seen' = (seen \/ resp.kind = "ok")
            /\ AfterIsrc(t, silent, find_track_by_isrc(resp),
                         IF find_track_by_isrc(resp) # <<>> THEN resp.items ELSE <<>>, 1)
    ELSE /\ sent' = NoRequests
         /\ UNCHANGED seen
         /\ AfterIsrc(t, silent, <<>>, <<>>, 0)

\* the body of "for q in queries" for the response resp to its request, and
\* what follows the loop when it ends here
FuzzyStep(resp) ==
    LET t == ft.track[1]
        nq == Len(ft.queries)
        ns == ft.searches + 1
        data == search_tidal(resp)
        best == score_items(data.items, 1, ft.best, t.duration)
        top == top_after(ft.top, data.items, t.duration)
        m == map_tidal_to_internal(best.item[1], TRUE, t)
    IN  IF data.raised
        THEN Return(t, <<>>, "error", <<>>, ft.best.score, nq, ns, ft.lookups, ft.top)
        ELSE IF ~quick_accept(best) /\ ft.qi < nq
        THEN /\ ft' = [ft EXCEPT !.qi = @ + 1, !.best = best, !.searches = ns,
                                  !.top = top]
             /\ UNCHANGED <<converted, missed, i, ti, new_pl_tracks, pc, exc, last>>
        ELSE IF ~accepts(best)
        THEN Return(t, <<>>, "none", best.item, best.score, nq, ns, ft.lookups, top)
        ELSE IF m.raised
        THEN Return(t, <<>>, "error", best.item, best.score, nq, ns, ft.lookups, top)
        ELSE Return(t, m.value, "fuzzy", best.item, best.score, nq, ns, ft.lookups, top)

\* one iteration of "for q in queries": a search request, its response,
\* the scoring of its items and, when the loop ends here, the acceptance
\* test, the return of _find_track and the rest of the calling loop's body
FuzzyQuery ==
    /\ UNCHANGED <<preview, text, fmt, dz, run>>
    /\ pc \in {"tracks", "playlists"}
    /\ ft.active
    /\ \E resp \in TrackSearchResponses :
        /\ sent' = [NoRequests EXCEPT !.tracks = 1, !.kind = resp.kind]
        /\ seen' = (seen \/ resp.items # <<>>)
        /\ FuzzyStep(resp)
    /\ UNCHANGED <<console, budget, missed_file, pl>>

\* ------------------------------------------------------- convert: 1. Tracks
\* the favourites loop takes its next track and calls _find_track
BeginTrack ==
    /\ UNCHANGED <<preview, text, fmt, dz, run>>
    /\ pc = "tracks"
    /\ ~ft.active
    /\ budget > 0
    /\ \E t \in SrcTracks :
        StartFind(t, FALSE)
    /\ budget' = budget - 1
    /\ UNCHANGED <<console, missed_file, pl>>

\* data["tracks"] is exhausted
TracksEnd ==
    /\ UNCHANGED <<preview, text, fmt, dz, run>>
    /\ pc = "tracks"
    /\ ~ft.active
    /\ pc' = "albums"
    /\ i' = 0
    /\ sent' = NoRequests
    /\ last' = NoReturn
    /\ UNCHANGED seen
    /\ UNCHANGED <<console, exc, budget, converted,
                   missed, missed_file, pl, ti, new_pl_tracks, ft>>

\* ------------------------------------------------------- convert: 2. Albums
\* _find_album: sent tells whether the search request went out (the artist
\* extraction comes first and its exception is caught with the rest), cand
\* is results[0] when there is one
find_album(source_album, resp) ==
    LET data == search_tidal(resp)
        item == data.items[1]
    IN  IF get_safe_artist(source_album).raised
        THEN [sent |-> FALSE, cand |-> <<>>, ret |-> <<>>]
        ELSE IF data.raised \/ data.items = <<>>
        THEN [sent |-> TRUE, cand |-> <<>>, ret |-> <<>>]
        ELSE IF get_safe_artist(item).raised \/ item.id = 0 \/ ~item.complete
        THEN [sent |-> TRUE, cand |-> <<item>>, ret |-> <<>>]
        ELSE [sent |-> TRUE, cand |-> <<item>>,
              ret |-> <<[id |-> item.id, date_add |-> source_album.date_add,
                         artist |-> get_safe_artist(item).name, type |-> "ALBUM"]>>]

AlbumMiss(a) ==
    [context |-> "album", index |-> i + 1, title |-> a.title,
     artist |-> get_safe_artist(a).name, original |-> a]

\* one iteration of the albums loop
Album ==
    /\ UNCHANGED <<preview, text, fmt, dz, run>>
    /\ pc = "albums"
    /\ budget > 0
    /\ budget' = budget - 1
    /\ \E a \in SrcAlbums, resp \in AlbumSearchResponses :
        LET r == find_album(a, resp)
        IN  /\ sent' = IF r.sent THEN [NoRequests EXCEPT !.albums = 1, !.kind = resp.kind]
                        ELSE NoRequests
            /\ seen' = (seen \/ (r.sent /\ resp.items # <<>>))
            /\ IF r.ret # <<>>
               THEN /\ converted' = [converted EXCEPT !.albums = Append(@, r.ret[1])]
                    /\ i' = i + 1
                    /\ UNCHANGED <<missed, pc, exc>>
               ELSE IF ~console
               THEN /\ i' = i + 1
                    /\ UNCHANGED <<converted, missed, pc, exc>>
               ELSE IF get_safe_artist(a).raised
               THEN /\ pc' = "raised"
                    /\ exc' = "AttributeError"
                    /\ UNCHANGED <<converted, missed, i>>
               ELSE /\ missed' = Append(missed, AlbumMiss(a))
                    /\ i' = i + 1
                    /\ UNCHANGED <<converted, pc, exc>>
            /\ last' = [NoReturn EXCEPT !.cand = r.cand]
    /\ UNCHANGED <<console, missed_file, pl, ti, new_pl_tracks,
                   ft>>

\* data["albums"] is exhausted
AlbumsEnd ==
    /\ UNCHANGED <<preview, text, fmt, dz, run>>
    /\ pc = "albums"
    /\ pc' = "playlists"
    /\ i' = 0
    /\ sent' = NoRequests
    /\ last' = NoReturn
    /\ UNCHANGED seen
    /\ UNCHANGED <<console, exc, budget, converted,
                   missed, missed_file, pl, ti, new_pl_tracks, ft>>

\* ---------------------------------------------------- convert: 3. Playlists
\* pl.copy() with "tracks" replaced
NewPlaylist(p, tracks) == [title |-> p.title, tracks |-> tracks]

\* the input playlist after "new_pl = pl; new_pl['tracks'] = tracks", where
\* new_pl is the input dict itself
playlist_after_aliased(p, tracks) == [p EXCEPT !.track_count = Len(tracks)]

\* the input playlist after "new_pl = pl.copy(); new_pl['tracks'] = tracks":
\* the assignment goes to the copy
playlist_after(p, tracks) == p

\* the playlists loop with a "continue" that forgets to append the playlist
\* without tracks
BeginPlaylist_DropsEmpty ==
    /\ UNCHANGED <<preview, text, fmt, dz, run>>
    /\ pc = "playlists"
    /\ pl = <<>>
    /\ budget > 0
    /\ budget' = budget - 1
    /\ \E p \in SrcPlaylists, n \in 0..(budget - 1) :
        /\ p.kind # "list" => n = 0
        /\ IF n = 0
           THEN /\ i' = i + 1
                /\ UNCHANGED <<pl, converted>>
           ELSE /\ pl' = <<[title |-> p.title, track_count |-> n]>>
                /\ UNCHANGED <<converted, i>>
    /\ ti' = 0
    /\ new_pl_tracks' = <<>>
    /\ sent' = NoRequests
    /\ last' = NoReturn
    /\ UNCHANGED <<console, pc, exc, missed, missed_file, ft, seen>>

\* the playlists loop takes its next playlist; one without tracks is
\* finished in the same iteration (rich: the track_count == 0 branch;
\* plain: the inner loop runs zero times)
BeginPlaylist ==
    /\ UNCHANGED <<preview, text, fmt, dz, run>>
    /\ pc = "playlists"
    /\ pl = <<>>
    /\ budget > 0
    /\ budget' = budget - 1
    /\ \E p \in SrcPlaylists, n \in 0..(budget - 1) :
        /\ p.kind # "list" => n = 0
        /\ IF n = 0
           THEN /\ converted' = [converted EXCEPT !.user_playlists =
                                    Append(@, NewPlaylist(p, <<>>))]
                /\ i' = i + 1
                /\ UNCHANGED pl
           ELSE /\ pl' = <<[title |-> p.title, track_count |-> n]>>
                /\ UNCHANGED <<converted, i>>
    /\ ti' = 0
    /\ new_pl_tracks' = <<>>
    /\ sent' = NoRequests
    /\ last' = NoReturn
    /\ UNCHANGED seen
    /\ UNCHANGED <<console, pc, exc, missed, missed_file,
                   ft>>

\* the inner loop takes the playlist's next track and calls _find_track
BeginPlaylistTrack ==
    /\ UNCHANGED <<preview, text, fmt, dz, run>>
    /\ pc = "playlists"
    /\ pl # <<>>
    /\ ~ft.active
    /\ ti < pl[1].track_count
    /\ \E t \in SrcPlaylistTracks :
        StartFind(t, TRUE)
    /\ budget' = budget - 1
    /\ UNCHANGED <<console, missed_file, pl>>

\* the end of the inner loop that keeps only the playlists with a match
EndPlaylist_DropsUnmatched ==
    /\ UNCHANGED <<preview, text, fmt, dz, run>>
    /\ pc = "playlists"
    /\ pl # <<>>
    /\ ~ft.active
    /\ ti = pl[1].track_count
    /\ converted' = IF new_pl_tracks = <<>> THEN converted
                    ELSE [converted EXCEPT !.user_playlists =
                            Append(@, NewPlaylist(pl[1], new_pl_tracks))]
    /\ pl' = <<>>
    /\ i' = i + 1
    /\ sent' = NoRequests
    /\ last' = [NoReturn EXCEPT !.source = <<playlist_after(pl[1], new_pl_tracks)>>]
    /\ UNCHANGED seen
    /\ UNCHANGED <<console, pc, exc, budget, missed,
                   missed_file, ti, new_pl_tracks, ft>>

\* after the inner loop: the copy of the playlist gets the matches
EndPlaylist ==
    /\ UNCHANGED <<preview, text, fmt, dz, run>>
    /\ pc = "playlists"
    /\ pl # <<>>
    /\ ~ft.active
    /\ ti = pl[1].track_count
    /\ converted' = [converted EXCEPT !.user_playlists =
                        Append(@, NewPlaylist(pl[1], new_pl_tracks))]
    /\ pl' = <<>>
    /\ i' = i + 1
    /\ sent' = NoRequests
    /\ last' = [NoReturn EXCEPT !.source = <<playlist_after(pl[1], new_pl_tracks)>>]
    /\ UNCHANGED seen
    /\ UNCHANGED <<console, pc, exc, budget, missed,
                   missed_file, ti, new_pl_tracks, ft>>

\* -------------------------------------------------- convert: the miss report
\* data["user_playlists"] is exhausted: the misses, if any, are written to
\* missed_tidal.json (a failure to write is reported and swallowed), the
\* rich console lists the first PREVIEW_LIMIT of them, and convert returns
Min(a, b) == IF a < b THEN a ELSE b

\* a line of the preview: context, title and artist of a miss record
PreviewLine(m) == [context |-> m.context, title |-> m.title, artist |-> m.artist]

Report ==
    /\ pc = "playlists"
    /\ pl = <<>>
    /\ pc' = "done"
    /\ IF missed # <<>>
       THEN \E ok \in BOOLEAN :
               missed_file' = IF ok THEN [written |-> TRUE, content |-> missed]
                              ELSE missed_file
       ELSE UNCHANGED missed_file
    /\ preview' = IF console /\ missed_file'.written
                  THEN [k \in 1..Min(PREVIEW_LIMIT, Len(missed)) |-> PreviewLine(missed[k])]
                  ELSE <<>>
    /\ UNCHANGED <<text, fmt, dz, run>>
    /\ sent' = NoRequests
    /\ last' = NoReturn
    /\ UNCHANGED seen
    /\ UNCHANGED <<console, exc, budget, converted,
                   missed, i, pl, ti, new_pl_tracks, ft>>

Next ==
    \/ Authenticate
    \/ BeginTrack
    \/ FuzzyQuery
    \/ TracksEnd
    \/ Album
    \/ AlbumsEnd
    \/ BeginPlaylist
    \/ BeginPlaylistTrack
    \/ EndPlaylist
    \/ Report

Spec == Init /\ [][Next]_vars

\* ------------------------------------------------- _clean_str on its own
\* the characters of the texts: letters of both cases, an accented letter,
\* the space, punctuation and brackets
Alphabet == {"a", "B", "e_acute", Space, "!", "(", ")", "["}

\* bracket-free texts to put between brackets
SuffixTexts == {<<>>, <<"b">>, <<"a", Space, "!">>}
Brackets == {<<"(", ")">>, <<"[", "]">>}

\* a caller writes the text, one character at a time
TypeChar ==
    /\ text.stage = "typing"
    /\ Len(text.s) < MaxLen
    /\ \E ch \in Alphabet : text' = [text EXCEPT !.s = Append(@, ch)]
    /\ UNCHANGED <<convert_vars, fmt, dz, run>>

\* _clean_str(s), and _clean_str of what it returned
Clean ==
    /\ text.stage = "typing"
    /\ text' = [text EXCEPT !.stage = "cleaned",
                            !.out = clean_str(text.s),
                            !.twice = clean_str(clean_str(text.s))]
    /\ UNCHANGED <<convert_vars, fmt, dz, run>>

\* _clean_str(s + " (" + p + ")") and _clean_str(s + " [" + p + "]")
CleanSuffixed ==
    /\ text.stage = "cleaned"
    /\ \E p \in SuffixTexts, b \in Brackets :
          LET suffix == <<Space, b[1]>> \o p \o <<b[2]>>
          IN  text' = [text EXCEPT !.stage = "suffixed",
                                  !.p = suffix,
                                  !.suffixed = clean_str(text.s \o suffix)]
    /\ UNCHANGED <<convert_vars, fmt, dz, run>>

InitText ==
    /\ console = FALSE
    /\ pc = "start"
    /\ exc = ""
    /\ budget = MaxItems
    /\ converted = [tracks |-> <<>>, albums |-> <<>>, user_playlists |-> <<>>,
                    favorites_tracks |-> <<>>]
    /\ missed = <<>>
    /\ missed_file = [written |-> FALSE, content |-> <<>>]
    /\ i = 0
    /\ pl = <<>>
    /\ ti = 0
    /\ new_pl_tracks = <<>>
    /\ ft = Idle
    /\ sent = NoRequests
    /\ seen = FALSE
    /\ preview = <<>>
    /\ text = [NoText EXCEPT !.stage = "typing"]
    /\ fmt = NoFmt
    /\ dz = NoDz
    /\ run = NoRun
    /\ last = NoReturn

NextText ==
    \/ TypeChar
    \/ Clean
    \/ CleanSuffixed

SpecText == InitText /\ [][NextText]_vars

\* convert() has not been called: what its variables hold meanwhile
ConvertNotStarted ==
    /\ console = FALSE
    /\ pc = "start"
    /\ exc = ""
    /\ budget = MaxItems
    /\ converted = [tracks |-> <<>>, albums |-> <<>>, user_playlists |-> <<>>,
                    favorites_tracks |-> <<>>]
    /\ missed = <<>>
    /\ missed_file = [written |-> FALSE, content |-> <<>>]
    /\ i = 0
    /\ pl = <<>>
    /\ ti = 0
    /\ new_pl_tracks = <<>>
    /\ ft = Idle
    /\ sent = NoRequests
    /\ seen = FALSE
    /\ preview = <<>>
    /\ last = NoReturn

\* ------------------------------------------- the formatter: MonochromeJsonOutput
\* Timestamps are counted in units of 10^8, so that the threshold
\* 10000000000 of _format_date is 100, a date of today in seconds is 17 and
\* the same date in milliseconds is 17000.
MS_THRESHOLD == 100
MS_PER_S == 1000

\* date_add values: None (NoDate), 0, seconds, the threshold and the values
\* around it, milliseconds
Timestamps == {NoDate, 0, 17, MS_THRESHOLD - 1, MS_THRESHOLD, MS_THRESHOLD + 1, 17000}

\* _format_date(timestamp), by what its text denotes: "now" (the clock at the
\* time of the call), "instant" (the moment ms, in milliseconds since the
\* epoch, that the ISO text names) or "text" (str(timestamp), from the
\* except clause: int(None) raises)
format_date(timestamp) ==
    IF timestamp = NoDate THEN [kind |-> "text", ms |-> 0]
    ELSE IF timestamp = 0 THEN [kind |-> "now", ms |-> 0]
    ELSE IF timestamp > MS_THRESHOLD THEN [kind |-> "instant", ms |-> timestamp]
    ELSE [kind |-> "instant", ms |-> timestamp * MS_PER_S]

\* _format_ms(timestamp): int(None) raises
format_ms(timestamp) ==
    IF timestamp = NoDate THEN 0 ELSE timestamp * MS_PER_S

\* Texts of covers are sequences of atoms: the separators "/" and "-" and
\* words without separator.  DottedWords are the words with a "." in them,
\* Schemes the words a URL starts with.
DottedWords == {"640x640.jpg", "resources.tidal.com"}
Schemes == {"https:"}
SegWords == {"a", "b1", "images"}
ImagesPrefix == <<"https:", "/", "/", "resources.tidal.com", "/", "images", "/">>
FileName == "640x640.jpg"

\* the positions of atom x in s
Positions(s, x) == {k \in 1..Len(s) : s[k] = x}

\* the least element of a non-empty set of numbers
Least(S) == CHOOSE k \in S : \A j \in S : k <= j

\* s.replace(a, b)
replace(s, a, b) == [k \in 1..Len(s) |-> IF s[k] = a THEN b ELSE s[k]]

\* s.split(sep)
RECURSIVE split(_, _)
split(s, sep) ==
    IF Positions(s, sep) = {} THEN <<s>>
    ELSE LET k == Least(Positions(s, sep))
         IN  <<SubSeq(s, 1, k - 1)>> \o split(SubSeq(s, k + 1, Len(s)), sep)

\* [p for p in parts if p]
NonEmpty(parts) == SelectSeq(parts, LAMBDA q : q # <<>>)

\* sep.join(parts)
RECURSIVE join(_, _)
join(parts, sep) ==
    IF parts = <<>> THEN <<>>
    ELSE IF Len(parts) = 1 THEN parts[1]
    ELSE parts[1] \o <<sep>> \o join(Tail(parts), sep)

\* the compact identifier made of the segments segs
Compact(segs) == join([k \in 1..Len(segs) |-> <<segs[k]>>], "-")

\* the cover URL the mapper builds from the identifier of the catalog item
cover_url(cover) ==
    IF cover = <<>> THEN <<>>
    ELSE ImagesPrefix \o replace(cover, "-", "/") \o <<"/", FileName>>

\* cover.startswith('http')
startswith_http(cover) == cover # <<>> /\ cover[1] \in Schemes

\* urlparse(cover).path: what follows the host of scheme://host, or the
\* whole text when it has no scheme
urlparse_path(cover) ==
    IF Len(cover) >= 3 /\ cover[1] \in Schemes /\ cover[2] = "/" /\ cover[3] = "/"
    THEN LET r == SubSeq(cover, 4, Len(cover))
         IN  IF Positions(r, "/") = {} THEN <<>>
             ELSE SubSeq(r, Least(Positions(r, "/")), Len(r))
    ELSE cover

\* where '/images/' starts in path
ImagesAt(path) ==
    {k \in 1..(Len(path) - 2) :
        path[k] = "/" /\ path[k + 1] = "images" /\ path[k + 2] = "/"}

\* '.' in part
HasDot(part) == \E k \in 1..Len(part) : part[k] \in DottedWords

\* the parts with the file name left in
keep_file(parts) == parts

\* if '.' in parts[-1]: parts = parts[:-1]
drop_file(parts) ==
    IF HasDot(parts[Len(parts)]) THEN SubSeq(parts, 1, Len(parts) - 1) ELSE parts

\* _normalize_cover(cover)
normalize_cover(cover) ==
    LET path == urlparse_path(cover)
        rest == SubSeq(path, Least(ImagesAt(path)) + 3, Len(path))
        parts == NonEmpty(split(rest, "/"))
        plain == NonEmpty(split(cover, "/"))
    IN  IF cover = <<>> THEN cover
        ELSE IF /\ startswith_http(cover)
                /\ ImagesAt(path) # {}
                /\ Len(parts) >= 1
                /\ drop_file(parts) # <<>>
        THEN join(drop_file(parts), "-")
        ELSE IF Positions(cover, "/") # {} /\ ~startswith_http(cover) /\ plain # <<>>
        THEN join(plain, "-")
        ELSE cover

\* the pieces of _fmt_t(t) that come from date_add and from the cover
fmt_t(t) ==
    [addedAt |-> format_ms(t.date_add),
     streamStartDate |-> format_date(t.date_add),
     cover |-> normalize_cover(t.cover)]

NoOut == [addedAt |-> 0, streamStartDate |-> [kind |-> "text", ms |-> 0], cover |-> <<>>]

\* the catalog item gets the next segment of its cover identifier
TypeSegment ==
    /\ fmt.stage = "typing"
    /\ Len(fmt.segs) < MaxSegs
    /\ \E w \in SegWords : fmt' = [fmt EXCEPT !.segs = Append(@, w)]
    /\ UNCHANGED <<convert_vars, text, dz, run>>

\* the mapper builds the match: the cover URL, and the date_add it carries
MapCover ==
    /\ fmt.stage = "typing"
    /\ fmt' = [fmt EXCEPT !.stage = "mapped",
                          !.t = [date_add |-> fmt.date_add,
                                 cover |-> cover_url(Compact(fmt.segs))]]
    /\ UNCHANGED <<convert_vars, text, dz, run>>

\* save() formats the match; compact is _normalize_cover of the identifier
\* in its compact form
FmtT ==
    /\ fmt.stage = "mapped"
    /\ fmt' = [fmt EXCEPT !.stage = "formatted",
                          !.out = fmt_t(fmt.t),
                          !.compact = normalize_cover(Compact(fmt.segs))]
    /\ UNCHANGED <<convert_vars, text, dz, run>>

InitFormat ==
    /\ ConvertNotStarted
    /\ text = NoText
    /\ dz = NoDz
    /\ run = NoRun
    /\ \E d \in Timestamps :
          fmt = [stage |-> "typing", date_add |-> d, segs |-> <<>>,
                 t |-> [date_add |-> NoDate, cover |-> <<>>],
                 out |-> NoOut, compact |-> <<>>]

NextFormat ==
    \/ TypeSegment
    \/ MapCover
    \/ FmtT

SpecFormat == InitFormat /\ [][NextFormat]_vars

\* ------------------------------------------- the source: DeezerGatewaySource
\* page size, and the "safety cap" of _fetch_full_playlist
STEP == 50
SAFETY_CAP == 20000

\* What the gateway answers to one request: "token_error" (an error dict
\* that names the token), "error" (another error dict, or the request or
\* r.json() raises), "user" (results with USER and checkForm), "empty"
\* (results without them).
GatewayResponses == {"token_error", "error", "user", "empty"}

\* the number of items of one page: none, fewer than STEP, STEP
PageSizes == {0, 1, STEP}

\* mode: what is being run ("call": one _raw_call, "fetch": the favourite
\* tracks of fetch_data).  depth: the _raw_call frames on the stack, all but
\* the top one waiting in _refresh_token; ret: what the frame that just
\* returned handed back; requests, refreshes, retries: session.post calls,
\* _refresh_token calls and second posts since the outermost call began.
\* loop, start, fetched: the pagination loop, its offset and the items it
\* has collected; asked: the offset of the latest page request; pages: the
\* items of the pages received, summed.
IdleDz == [mode |-> "call", stage |-> "idle", depth |-> 0, ret |-> "",
           requests |-> 0, refreshes |-> 0, retries |-> 0,
           loop |-> "none", start |-> 0, fetched |-> 0, asked |-> 0, pages |-> 0]

\* a caller calls _raw_call(method, body)
RawCall ==
    /\ dz.mode = "call"
    /\ dz.stage = "idle"
    /\ dz' = [dz EXCEPT !.stage = "post", !.depth = 1]
    /\ UNCHANGED <<convert_vars, text, fmt, run>>

\* the first session.post of the top frame and what it does with the
\* response: a token error makes it call _refresh_token, which calls
\* _raw_call("deezer.getUserData") with check_token left at True; past the
\* recursion limit that call raises RecursionError, which the "except
\* Exception" of this frame turns into {}
Post ==
    /\ dz.mode = "call"
    /\ dz.stage = "post"
    /\ \E resp \in GatewayResponses :
          IF resp = "token_error"
          THEN IF dz.depth < MaxDepth
               THEN dz' = [dz EXCEPT !.requests = @ + 1, !.refreshes = @ + 1,
                                     !.depth = @ + 1]
               ELSE dz' = [dz EXCEPT !.requests = @ + 1, !.refreshes = @ + 1,
                                     !.stage = "return", !.ret = "empty"]
          ELSE dz' = [dz EXCEPT !.requests = @ + 1, !.stage = "return",
                                !.ret = IF resp = "user" THEN "user" ELSE "empty"]
    /\ UNCHANGED <<convert_vars, text, fmt, run>>

\* the top frame returns: to the caller, or into the _refresh_token of the
\* frame below, which raises without USER in the data (that frame's except
\* clause returns {}) and else lets the frame go on to its second post
Return_raw_call ==
    /\ dz.mode = "call"
    /\ dz.stage = "return"
    /\ IF dz.depth = 1
       THEN dz' = [dz EXCEPT !.stage = "done", !.depth = 0]
       ELSE IF dz.ret = "user"
       THEN dz' = [dz EXCEPT !.depth = @ - 1, !.stage = "retry", !.ret = ""]
       ELSE dz' = [dz EXCEPT !.depth = @ - 1, !.ret = "empty"]
    /\ UNCHANGED <<convert_vars, text, fmt, run>>

\* the second session.post of a frame, after its _refresh_token returned:
\* whatever the response, the frame returns its "results"
Retry ==
    /\ dz.mode = "call"
    /\ dz.stage = "retry"
    /\ \E resp \in GatewayResponses :
          dz' = [dz EXCEPT !.requests = @ + 1, !.retries = @ + 1,
                           !.stage = "return",
                           !.ret = IF resp = "user" THEN "user" ELSE "empty"]
    /\ UNCHANGED <<convert_vars, text, fmt, run>>

\* fetch_data starts on the favourite tracks: with a loved_playlist_id by
\* _fetch_full_playlist, without one by the fallback loop
FetchStart ==
    /\ dz.mode = "fetch"
    /\ dz.stage = "idle"
    /\ \E has_id \in BOOLEAN :
          dz' = [dz EXCEPT !.stage = "paging",
                           !.loop = IF has_id THEN "playlist" ELSE "fallback"]
    /\ UNCHANGED <<convert_vars, text, fmt, run>>

\* the state after the loop of _fetch_full_playlist has ended: with no
\* track at all the fallback loop starts
AfterPlaylistLoop(d) ==
    IF d.fetched = 0
    THEN [d EXCEPT !.loop = "fallback", !.start = 0]
    ELSE [d EXCEPT !.stage = "done"]

\* one iteration of "while True" in _fetch_full_playlist: the request for
\* the page at start, which brings n items
PlaylistPage ==
    /\ dz.mode = "fetch"
    /\ dz.stage = "paging"
    /\ dz.loop = "playlist"
    /\ \E n \in PageSizes :
          LET got == [dz EXCEPT !.asked = dz.start, !.pages = @ + n,
                                !.fetched = @ + n]
          IN  IF n = 0 \/ n < STEP
              THEN dz' = AfterPlaylistLoop(got)
              ELSE IF dz.start + STEP > SAFETY_CAP
              THEN dz' = AfterPlaylistLoop([got EXCEPT !.start = @ + STEP])
              ELSE dz' = [got EXCEPT !.start = @ + STEP]
    /\ UNCHANGED <<convert_vars, text, fmt, run>>

\* one iteration of the portal.getUserTracks loop of fetch_data
FallbackPage ==
    /\ dz.mode = "fetch"
    /\ dz.stage = "paging"
    /\ dz.loop = "fallback"
    /\ dz.start < MaxOffset
    /\ \E n \in PageSizes :
          LET got == [dz EXCEPT !.asked = dz.start, !.pages = @ + n,
                                !.fetched = @ + n]
          IN  IF n = 0 \/ n < STEP
              THEN dz' = [got EXCEPT !.stage = "done"]
              ELSE dz' = [got EXCEPT !.start = @ + STEP]
    /\ UNCHANGED <<convert_vars, text, fmt, run>>

InitDeezer ==
    /\ ConvertNotStarted
    /\ text = NoText
    /\ fmt = NoFmt
    /\ run = NoRun
    /\ \E mode \in {"call", "fetch"} : dz = [IdleDz EXCEPT !.mode = mode]

NextDeezer ==
    \/ RawCall
    \/ Post
    \/ Return_raw_call
    \/ Retry
    \/ FetchStart
    \/ PlaylistPage
    \/ FallbackPage

SpecDeezer == InitDeezer /\ [][NextDeezer]_vars

\* ---------------------------------------------------------------- main()
\* the calls of the try block, in the order of the text
Steps == <<"authenticate", "fetch_data", "convert", "save">>

\* the two entry points and the sources each can be run with
Mains == {[main |-> "musixporter", source |-> "deezer"],
          [main |-> "musixporter", source |-> "ytmusic"],
          [main |-> "music_exporter", source |-> "deezer"]}

\* pos: the calls of the try block that have completed; calls: the calls
\* made, in order; data: the tracks fetch_data returned, tidal: those of
\* them convert matched (-1: not yet assigned); file: the output file;
\* reported: the except clause has printed the fatal error; returned: main
\* has returned.
NoFile == [written |-> FALSE, tracks |-> 0]

\* a handler that reports the exception and carries on with the next call
after_raise_continue(r) == [r EXCEPT !.reported = TRUE, !.pos = @ + 1]

\* "except Exception as e": the error is reported and main returns
after_raise(r) == [r EXCEPT !.reported = TRUE, !.returned = TRUE]

\* the call of step number k is made
called(r, k) == [r EXCEPT !.calls = Append(@, Steps[k])]

\* source.authenticate() completes or raises
SourceAuthenticate ==
    /\ ~run.returned
    /\ run.pos = 0
    /\ \E ok \in BOOLEAN :
          run' = IF ok THEN [called(run, 1) EXCEPT !.pos = 1]
                 ELSE after_raise(called(run, 1))
    /\ UNCHANGED <<convert_vars, text, fmt, dz>>

\* data = source.fetch_data() completes or raises
SourceFetchData ==
    /\ ~run.returned
    /\ run.pos = 1
    /\ \E ok \in BOOLEAN, n \in 0..MaxItems :
          run' = IF ok THEN [called(run, 2) EXCEPT !.pos = 2, !.data = n]
                 ELSE after_raise(called(run, 2))
    /\ UNCHANGED <<convert_vars, text, fmt, dz>>

\* tidal_data = converter.convert(data) completes, with some of the tracks
\* matched, or raises
ConverterConvert ==
    /\ ~run.returned
    /\ run.pos = 2
    /\ \E ok \in BOOLEAN, k \in 0..MaxItems :
          /\ k <= run.data
          /\ run' = IF ok THEN [called(run, 3) EXCEPT !.pos = 3, !.tidal = k]
                    ELSE after_raise(called(run, 3))
    /\ UNCHANGED <<convert_vars, text, fmt, dz>>

\* formatter.save(tidal_data, filename): it builds "out" (a missing key
\* raises), opens the file (which may raise) and dumps "out" into it; then
\* main returns
FormatterSave ==
    /\ ~run.returned
    /\ run.pos = 3
    /\ \E outcome \in {"ok", "format_raises", "open_raises"} :
          run' = IF outcome = "ok"
                 THEN [called(run, 4) EXCEPT !.pos = 4, !.returned = TRUE,
                          !.file = [written |-> TRUE, tracks |-> run.tidal]]
                 ELSE after_raise(called(run, 4))
    /\ UNCHANGED <<convert_vars, text, fmt, dz>>

InitMain ==
    /\ ConvertNotStarted
    /\ text = NoText
    /\ fmt = NoFmt
    /\ dz = NoDz
    /\ \E m \in Mains :
          run = [main |-> m.main, source |-> m.source, pos |-> 0, calls |-> <<>>,
                 data |-> -1, tidal |-> -1, file |-> NoFile,
                 reported |-> FALSE, returned |-> FALSE]

NextMain ==
    \/ SourceAuthenticate
    \/ SourceFetchData
    \/ ConverterConvert
    \/ FormatterSave

SpecMain == InitMain /\ [][NextMain]_vars

\* ================================================================ claims
\* the miss records of one context
MissCount(ctx) == Cardinality({k \in 1..Len(missed) : missed[k].context = ctx})

\* the miss records of the tracks of playlist number n
PlaylistMissCount(n) ==
    Cardinality({k \in 1..Len(missed) :
                    missed[k].context = "playlist" /\ missed[k].playlist_index = n})

\* C1: _find_track returns a match only for a candidate that passed the
\* exact-code check (its ISRC equals the source's, case-insensitively) or
\* was the fuzzy best candidate with a composite score of at least 0.8.
C1_MatchOnlyFromCheckedCandidate ==
    last.ret # <<>> =>
        \/ /\ last.via = "isrc"
           /\ Upper(last.cand[1].isrc) = Upper(last.track[1].isrc)
        \/ /\ last.via = "fuzzy"
           /\ last.score >= 80
           /\ combined(last.cand[1], last.track[1].duration) = last.score

\* C2: in the fuzzy path the best candidate is accepted if and only if its
\* composite score is at least 0.8 (0.79 is a miss, 0.80 is accepted); an
\* accepted candidate becomes the match unless mapping it raises.
C2_AcceptIffAtLeastThreshold ==
    (last.via \in {"fuzzy", "none", "error"} /\ last.cand # <<>>) =>
        /\ last.score <= 79 => (last.via = "none" /\ last.ret = <<>>)
        /\ last.score >= 80 =>
              IF map_tidal_to_internal(last.cand[1], TRUE, last.track[1]).raised
              THEN last.via = "error" /\ last.ret = <<>>
              ELSE /\ last.via = "fuzzy"
                   /\ last.ret = map_tidal_to_internal(last.cand[1], TRUE, last.track[1]).value

\* a best candidate at exactly 0.80 was accepted
C2_Witness ==
    /\ last.via = "fuzzy"
    /\ last.score = 80
    /\ last.ret # <<>>
    /\ last.ret[1].id = last.cand[1].id

\* C3: when the ISRC lookup yields a match, _find_track returns it and sends
\* no search request for that track; the fuzzy approach runs only in a call
\* whose ISRC approach returned nothing.
C3_IsrcShortCircuits ==
    /\ ft.active => ft.isrc_ret = <<>>
    /\ last.via = "isrc" =>
          /\ last.searches = 0
          /\ last.lookups = 1
          /\ sent.tracks = 0
          /\ last.ret # <<>>
          /\ last.ret[1].id = last.cand[1].id
    /\ last.searches > 0 => last.via # "isrc"

\* a track with a title (the fuzzy approach could run) returned by the ISRC
\* lookup alone
C3_Witness ==
    /\ last.via = "isrc"
    /\ last.track[1].title # <<>>
    /\ last.ret # <<>>
    /\ sent.isrc = 1
    /\ sent.tracks = 0

\* C4: the exact-code path accepts the looked-up candidate only if the
\* candidate's own ISRC equals the source track's, case-insensitively.
C4_IsrcPathChecksCode ==
    last.via = "isrc" => Upper(last.cand[1].isrc) = Upper(last.track[1].isrc)

\* C5: while no search or lookup has returned a candidate, convert does not
\* raise, resolves no track, and every favourite track processed so far has
\* its miss record, in either console mode.
C5_NoCandidatesAllMisses ==
    ~seen =>
        /\ exc # "AttributeError"
        /\ converted.tracks = <<>>
        /\ (pc = "tracks" /\ ~ft.active) => Len(missed) = i

\* C6: at every loop head, the entities of the collection processed so far
\* have each produced one match or one miss record.
C6_OneOutcomePerEntity ==
    /\ (pc = "tracks" /\ ~ft.active) => Len(converted.tracks) + MissCount("tracks") = i
    /\ pc = "albums" => Len(converted.albums) + MissCount("album") = i
    /\ (pc = "playlists" /\ pl # <<>> /\ ~ft.active) =>
          Len(new_pl_tracks) + PlaylistMissCount(i + 1) = ti

\* C7: no exception of one item leaves convert, and a track whose resolution
\* raised has become a miss.
C7_ItemFailureBecomesMiss ==
    /\ exc # "AttributeError"
    /\ last.via = "error" =>
          /\ missed # <<>>
          /\ missed[Len(missed)].original = last.track[1]

\* C8: a step that takes a playlist without tracks appends it to
\* user_playlists with an empty track list, records no miss and sends no
\* request.
C8_EmptyPlaylistPassesThrough ==
    [][(pc = "playlists" /\ pl = <<>> /\ pl' = <<>> /\ budget' = budget - 1) =>
          /\ Len(converted'.user_playlists) = Len(converted.user_playlists) + 1
          /\ converted'.user_playlists[Len(converted'.user_playlists)].tracks = <<>>
          /\ SubSeq(converted'.user_playlists, 1, Len(converted.user_playlists))
                = converted.user_playlists
          /\ missed' = missed
          /\ sent' = NoRequests
          /\ pc' = "playlists"]_vars

\* the only entity of the input so far is a playlist, which is in the output
\* without tracks and without a miss
C8_Witness ==
    /\ pc = "playlists"
    /\ budget = MaxItems - 1
    /\ Len(converted.user_playlists) = 1
    /\ converted.user_playlists[1].tracks = <<>>
    /\ missed = <<>>
    /\ sent = NoRequests

\* C9: convert raises only for the authentication failure, and then before
\* anything was resolved or any search or lookup was sent.
C9_OnlyAuthenticationIsFatal ==
    /\ pc = "raised" => exc = "auth"
    /\ exc = "auth" =>
          /\ converted.tracks = <<>> /\ converted.albums = <<>>
          /\ converted.user_playlists = <<>>
          /\ missed = <<>>
          /\ budget = MaxItems
          /\ sent.isrc = 0 /\ sent.tracks = 0 /\ sent.albums = 0

\* C10: a search or lookup whose request failed is an empty result: after a
\* failed search the best candidate is unchanged and the next query of the
\* track is executed (after the last query the call ends on the candidates
\* of the earlier ones), and after a failed lookup the fuzzy approach runs.
C10_FailedRequestIsNoCandidate ==
    [][/\ (sent'.tracks = 1 /\ sent'.kind = "error") =>
            IF ft.qi < Len(ft.queries)
            THEN /\ ft'.active
                 /\ ft'.qi = ft.qi + 1
                 /\ ft'.best = ft.best
                 /\ ft'.queries = ft.queries
            ELSE /\ ~ft'.active
                 /\ last'.searches = Len(ft.queries)
                 /\ last'.score = ft.best.score
                 /\ last'.cand = ft.best.item
                 /\ last'.via = "error" => last'.cand # <<>>
       /\ (sent'.isrc = 1 /\ sent'.kind = "error") =>
            \/ ft'.active /\ ft'.qi = 1 /\ ft'.best = NoBest /\ ft'.isrc_ret = <<>>
            \/ ~ft'.active /\ last'.via = "none" /\ last'.track[1].title = <<>>]_vars

\* a search of a track has failed and the track's next query is due
C10_Witness ==
    /\ ft.active
    /\ sent.tracks = 1
    /\ sent.kind = "error"
    /\ ft.qi = 2
    /\ ft.best = NoBest

\* C11: within one run no request is sent twice: a step never sends the
\* first search query of a track whose previous resolution already sent it,
\* nor the ISRC lookup of a track whose previous resolution already sent it
\* (the repeated resolution would be answered from a cache).
C11_EachRequestSentOnce ==
    [][/\ (sent'.tracks = 1 /\ ft.qi = 1) => ~ft.again
       /\ (sent'.isrc = 1 /\ last.lookups = 1) =>
             (IF ft'.active THEN ft'.track ELSE last'.track) # last.track]_vars

\* the similarity ratio of two normalized artist names, in hundredths; the
\* names of the model are one letter or "Unknown", whose ratio is 1 when
\* they are equal and 0 otherwise
artist_score(a, b) == IF clean_str(a) = clean_str(b) THEN 100 ELSE 0

\* the latest _find_track call scored a best candidate
Scored == last.cand # <<>> /\ last.via \in {"fuzzy", "none", "error"}

\* C12: the composite score of the best candidate is
\* 0.8 * title_score + 0.2 * artist_score + duration term.
C12_CompositeIsWeightedSum ==
    (/\ Scored
     /\ ~get_safe_artist(last.track[1]).raised
     /\ ~get_safe_artist(last.cand[1]).raised) =>
        100 * last.score =
            80 * last.cand[1].sim
            + 20 * artist_score(get_safe_artist(last.track[1]).name,
                                get_safe_artist(last.cand[1]).name)
            + 100 * dur_score(last.track[1].duration, last.cand[1].duration)

\* C13: the duration term of the composite is +0.1 when both durations are
\* known and at most 3 seconds apart, 0 when either is unknown, and never a
\* bonus when they are more than 10 seconds apart.
C13_DurationTerm ==
    Scored =>
        LET term == last.score - last.cand[1].sim
            sd == last.track[1].duration
            cd == last.cand[1].duration
        IN  /\ (sd # 0 /\ cd # 0 /\ Abs(cd - sd) <= 3) => term = 10
            /\ (sd = 0 \/ cd = 0) => term = 0
            /\ (sd # 0 /\ cd # 0 /\ Abs(cd - sd) > 10) => term <= 0

MissRecordBuilt ==
    /\ last.track # <<>>
    /\ last.ret = <<>>
    /\ (console \/ pc \in {"playlists", "raised"})

\* C15: _get_safe_artist does not raise, and returns the name of the
\* "artist" object when there is one, else the name of the first entry of a
\* non-empty "artists" list, else "Unknown".
C15_GetSafeArtistNeverRaises ==
    MissRecordBuilt =>
        LET obj == last.track[1]
        IN  /\ ~get_safe_artist(obj).raised
            /\ exc # "AttributeError"
            /\ get_safe_artist(obj).name =
                  IF obj.has_artist THEN obj.artist_name
                  ELSE IF obj.has_artists /\ obj.artists # <<>> THEN obj.artists[1].name
                  ELSE Unknown

\* C16: _clean_str is idempotent, and what it returns holds only lower-case
\* letters, digits and spaces, with no space at either end.
C16_CleanStrIdempotent ==
    text.stage \in {"cleaned", "suffixed"} =>
        /\ text.twice = text.out
        /\ \A k \in 1..Len(text.out) :
              text.out[k] \in {Lower(ch) : ch \in Alnum} \cup {Space}
        /\ text.out # <<>> => (text.out[1] # Space /\ text.out[Len(text.out)] # Space)

\* a text with a leading space, an upper-case letter and punctuation was
\* normalized, and normalizing the result changed nothing
C16_Witness ==
    /\ text.stage = "cleaned"
    /\ text.s = <<Space, "B", "!">>
    /\ text.out = <<"b">>
    /\ text.twice = <<"b">>

\* C17: appending " (p)" or " [p]", p free of brackets, to any text s leaves
\* its normalization unchanged, also when s holds brackets or an unmatched
\* opening bracket.
C17_BracketSuffixIgnored ==
    text.stage = "suffixed" => text.suffixed = text.out

\* C18: the preview of the miss report holds each (title, artist, context)
\* once, at most PREVIEW_LIMIT of them and every one when they are fewer,
\* while the file holds every miss record in the order of the list.
C18_PreviewDeduplicated ==
    (pc = "done" /\ console /\ missed_file.written) =>
        /\ missed_file.content = missed
        /\ Len(preview) <= PREVIEW_LIMIT
        /\ \A j, k \in 1..Len(preview) : j # k => preview[j] # preview[k]
        /\ Cardinality({PreviewLine(missed[k]) : k \in 1..Len(missed)}) <= PREVIEW_LIMIT =>
              {preview[k] : k \in 1..Len(preview)}
                  = {PreviewLine(missed[k]) : k \in 1..Len(missed)}

\* the tracks of the first n converted playlists
RECURSIVE PlaylistTracksResolved(_)
PlaylistTracksResolved(n) ==
    IF n = 0 THEN 0
    ELSE Len(converted.user_playlists[n].tracks) + PlaylistTracksResolved(n - 1)

\* the source entities the run has taken that are in no output collection:
\* unresolved tracks, albums and playlist tracks (a playlist is always in
\* the output)
Unresolved ==
    (MaxItems - budget)
        - Len(converted.tracks) - Len(converted.albums)
        - Len(converted.user_playlists)
        - PlaylistTracksResolved(Len(converted.user_playlists))

\* the list of misses was not empty and writing the file failed
WriteFailed == missed # <<>> /\ ~missed_file.written

\* C19: when convert returns, the file holds the miss detail of every
\* unresolved item if there is one (unless writing failed), in either
\* console mode, and nothing was written if there is none.
C19_MissesAlwaysWritten ==
    pc = "done" =>
        /\ (Unresolved > 0 /\ ~WriteFailed) =>
              /\ missed_file.written
              /\ missed_file.content = missed
              /\ Len(missed) = Unresolved
        /\ Unresolved = 0 => ~missed_file.written

\* C20: an iteration of the albums loop sends exactly one request, an album
\* search; its first result, if there is one, is the match whatever its
\* similarity (unless the record is malformed and the call fails), and there
\* is no match when the result list is empty or the search failed.
C20_AlbumSingleShot ==
    [][(pc = "albums" /\ budget' = budget - 1) =>
          LET matched == Len(converted'.albums) = Len(converted.albums) + 1
              item == last'.cand[1]
          IN  /\ sent'.albums = 1 /\ sent'.tracks = 0 /\ sent'.isrc = 0
              /\ converted'.albums # converted.albums => matched
              /\ last'.cand = <<>> => ~matched
              /\ last'.cand # <<>> =>
                    IF get_safe_artist(item).raised \/ item.id = 0 \/ ~item.complete
                    THEN ~matched
                    ELSE /\ matched
                         /\ converted'.albums[Len(converted'.albums)].id = item.id]_vars

\* C21: a match returned by _find_track carries the date_add of the source
\* track it was resolved from, whether the ISRC lookup or the fuzzy search
\* produced it.
C21_DateAddCarriedOver ==
    last.ret # <<>> => last.ret[1].date_add = last.track[1].date_add

\* q is p, or p with one more element at its end
GrowsAtEnd(p, q) ==
    \/ q = p
    \/ Len(q) = Len(p) + 1 /\ SubSeq(q, 1, Len(p)) = p

\* C22: the outputs keep the order of the input: every output list and the
\* miss list only grow at their end while the input is walked front to
\* back, and a new miss record carries the position of its entity counted
\* from one in every context (i and ti count the entities already done).
C22_OrderAndPositions ==
    [][/\ GrowsAtEnd(missed, missed')
       /\ GrowsAtEnd(converted.tracks, converted'.tracks)
       /\ GrowsAtEnd(converted.albums, converted'.albums)
       /\ GrowsAtEnd(converted.user_playlists, converted'.user_playlists)
       /\ (pl # <<>> /\ pl' # <<>>) => GrowsAtEnd(new_pl_tracks, new_pl_tracks')
       /\ missed' # missed =>
            LET m == missed'[Len(missed')]
            IN  IF m.context = "playlist"
                THEN /\ m.playlist_index = i + 1
                     /\ m.track_index = ti + 1
                     /\ ti' = ti + 1
                     /\ i' = i
                ELSE /\ m.context = (IF pc = "tracks" THEN "tracks" ELSE "album")
                     /\ m.index = i + 1
                     /\ i' = i + 1]_vars

\* the first favourite was matched and the second one missed: its record
\* says position 2
C22_Witness ==
    /\ pc = "tracks"
    /\ Len(converted.tracks) = 1
    /\ Len(missed) = 1
    /\ missed[1].context = "tracks"
    /\ missed[1].index = 2

\* C24: the candidate the fuzzy path returns is the first-seen one of
\* maximal composite score among all candidates of all queries executed
\* for the track, and the running best score never decreases from one
\* query to the next nor to the acceptance test.
C24_BestIsMaximum ==
    [][/\ last'.via = "fuzzy" =>
            /\ last'.cand = last'.top.item
            /\ last'.score = last'.top.score
       /\ (ft.active /\ ft'.active) => ft'.best.score >= ft.best.score
       /\ (ft.active /\ last'.via \in {"fuzzy", "none"}) =>
            last'.score >= ft.best.score]_vars

\* two queries were executed, the second one answered, and the fuzzy path
\* returned ItemAt80 at the score 80
C24_Witness ==
    /\ last.via = "fuzzy"
    /\ last.searches = 2
    /\ last.cand = <<ItemAt80>>
    /\ sent.tracks = 1
    /\ sent.kind = "ok"
    /\ last.score = 80

\* C29: the output holds one playlist per input playlist taken so far, in
\* input order, whatever became of its tracks; the track list of an output
\* playlist is the matches of its own tracks in their order, never longer
\* than the input list; and favorites_tracks is always the same sequence as
\* tracks.
C29_PlaylistsOneToOne ==
    [][/\ converted.favorites_tracks = converted.tracks
       /\ converted'.favorites_tracks = converted'.tracks
       /\ pc \in {"playlists", "done"} => Len(converted.user_playlists) = i
       /\ (pc = "playlists" /\ pl # <<>>) => Len(new_pl_tracks) <= ti
       /\ (pc = "playlists" /\ pl # <<>>) => ti <= pl[1].track_count
       /\ (pc = "playlists" /\ pl # <<>> /\ pl' # <<>>) =>
            new_pl_tracks' = IF last'.ret # <<>> THEN Append(new_pl_tracks, last'.ret[1])
                             ELSE new_pl_tracks
       /\ (pc = "playlists" /\ pl # <<>> /\ pl' = <<>>) =>
            /\ converted'.user_playlists =
                  Append(converted.user_playlists,
                         [title |-> pl[1].title, tracks |-> new_pl_tracks])
            /\ ti = pl[1].track_count]_vars

\* a playlist of two tracks, neither of them matched, is in the output with
\* an empty track list
C29_Witness ==
    /\ pc = "playlists"
    /\ pl = <<>>
    /\ i = 1
    /\ Len(converted.user_playlists) = 1
    /\ converted.user_playlists[1].tracks = <<>>
    /\ PlaylistMissCount(1) = 2

C25_SameInstant ==
    (fmt.stage = "formatted" /\ fmt.date_add > 0) =>
        /\ fmt.out.streamStartDate.kind = "instant"
        /\ fmt.out.streamStartDate.ms = fmt.out.addedAt

\* C26: the cover URL the mapper builds from an identifier of non-empty
\* segments joined by "-" is normalised back to that identifier; an empty
\* cover stays empty; the identifier in compact form is left as it is.
C26_CoverRoundTrip ==
    fmt.stage = "formatted" =>
        /\ fmt.out.cover = Compact(fmt.segs)
        /\ fmt.compact = Compact(fmt.segs)
        /\ fmt.segs = <<>> => (fmt.t.cover = <<>> /\ fmt.out.cover = <<>>)

\* the identifier a-b1 went through the URL and came back
C26_Witness ==
    /\ fmt.stage = "formatted"
    /\ fmt.segs = <<"a", "b1">>
    /\ fmt.t.cover = ImagesPrefix \o <<"a", "/", "b1", "/", FileName>>
    /\ fmt.out.cover = <<"a", "-", "b1">>

\* C27: one _raw_call refreshes the token at most once and posts its
\* request at most twice, so that with the request of the refresh it sends
\* at most three requests, whatever the gateway answers.
C27_RefreshOnceRetryOnce ==
    dz.mode = "call" =>
        /\ dz.refreshes <= 1
        /\ dz.retries <= 1
        /\ dz.requests <= 3

\* C28: each pagination loop of the favourite tracks stops at the first
\* empty page, at the first short page or at the safety cap on the start
\* offset: no page is requested at an offset above the cap, and what was
\* fetched is what the pages brought.
C28_PaginationStopsAtCap ==
    dz.mode = "fetch" =>
        /\ dz.asked <= SAFETY_CAP
        /\ dz.fetched = dz.pages

====
